---- MODULE Spec2Model ----
(***************************************************************************)
(* Model of pkg/meta/dump.go of JuiceFS: the percent-hex escaping codec    *)
(* (escape, parseHex, unescape), the streaming JSON writer of one tree     *)
(* node (writeJSON, writeJsonWithOutEntry, writeJsonWithOutTree) and the   *)
(* hardlink-resolving collector (collectEntry).                            *)
(*                                                                         *)
(* Strings are sequences of bytes (0..255).  Three specifications share    *)
(* the module: SpecCodec, SpecCollect and SpecWriter; the variables of the *)
(* two parts a specification does not use stay at their idle values.       *)
(***************************************************************************)
EXTENDS Integers, Sequences, FiniteSets, TLC

VARIABLES
    \* ---- codec ----
    phase,      \* "idle" | "input" | "escaped" | "decoded" | "raw"
    original,   \* the argument of escape / of a direct unescape
    escaped,    \* escape(original)
    decoded,    \* the result of unescape
    \* ---- collector ----
    cpc,        \* "idle" | "start" | "run" | "done": where collectEntry(root) is
    nodes,      \* the parsed tree: node -> its DumpedEntry (Name, Parents, Attr, Entries)
    entries,    \* the table: inode -> the node kept for it
    stack,      \* the frames of collectEntry inside their range loop, innermost last
    err,        \* what collectEntry(root) returns
    total,      \* sum of the totalIncr passed to showProgress
    current,    \* sum of the currentIncr passed to showProgress
    warned,     \* number of logger.Warnf calls
    visited,    \* history: the nodes collectEntry was called on, in order
    \* ---- writer ----
    wpc,        \* "idle" | "header" | "tree" | "failed": where the dump is
    dm,         \* the DumpedMeta: whether FSTree and Trash are set
    de,         \* the DumpedEntry that is emitted
    ncalls,     \* number of emissions of de so far
    last        \* the last writer call: op, depth, rejected write, pieces written, result

codecVars == <<phase, original, escaped, decoded>>

collectVars == <<cpc, nodes, entries, stack, err, total, current, warned, visited>>

writerVars == <<wpc, dm, de, ncalls, last>>

vars == <<codecVars, collectVars, writerVars>>

(***************************************************************************)
(* Bounds and input domains                                                *)
(***************************************************************************)
\* longest byte string drawn as an input of the codec
MaxLen == 3

\* the bytes the codec's inputs are drawn from: a control byte, '"', '%',
\* '4', 'A', 'Z', '\', 'a', the two bytes of U+00E9 (C3 A9), the three
\* bytes of U+FFFD (EF BF BD) and 0xFF, which starts no encoding
CodecBytes == {1, 34, 37, 52, 65, 90, 92, 97, 195, 169, 239, 191, 189, 255}

\* "a%ZZb", the malformed escape of the tolerant-decoding scenario
ScenarioD == <<97, 37, 90, 90, 98>>

RECURSIVE SeqsUpTo(_, _)
SeqsUpTo(S, n) ==
    IF n = 0 THEN {<<>>}
    ELSE LET shorter == SeqsUpTo(S, n - 1)
         IN shorter \cup {Append(s, b) : s \in {t \in shorter : Len(t) = n - 1}, b \in S}

CodecInputs == SeqsUpTo(CodecBytes, MaxLen) \cup {ScenarioD}

(***************************************************************************)
(* Idle values of the parts a specification does not use                   *)
(***************************************************************************)
NoErr == [kind |-> "nil", inode |-> 0]

CollectIdle ==
    /\ cpc = "idle"
    /\ nodes = <<>>
    /\ entries = <<>>
    /\ stack = <<>>
    /\ err = NoErr
    /\ total = 0
    /\ current = 0
    /\ warned = 0
    /\ visited = <<>>

NoCall == [op |-> "none", depth |-> 0, failAt |-> 0, pieces |-> <<>>, ret |-> "nil"]

WriterIdle ==
    /\ wpc = "idle"
    /\ dm = [FSTree |-> FALSE, Trash |-> FALSE]
    /\ de = <<>>
    /\ ncalls = 0
    /\ last = NoCall

CodecIdle ==
    /\ phase = "idle"
    /\ original = <<>>
    /\ escaped = <<>>
    /\ decoded = <<>>

(***************************************************************************)
(* unicode/utf8 as the range loop of escape uses it                        *)
(***************************************************************************)
\* utf8.RuneError, U+FFFD
RuneError == 65533

IsCont(b) == b >= 128 /\ b <= 191

\* The rune and the width the range loop yields at 1-based position i of s:
\* an ill-formed or truncated encoding yields (RuneError, 1).
DecodeRune(s, i) ==
    LET n  == Len(s) - i + 1
        b0 == s[i]
        invalid == [r |-> RuneError, size |-> 1]
    IN  IF b0 < 128 THEN [r |-> b0, size |-> 1]
        ELSE IF b0 >= 194 /\ b0 <= 223 THEN
            IF n >= 2 /\ IsCont(s[i + 1])
            THEN [r |-> (b0 % 32) * 64 + (s[i + 1] % 64), size |-> 2]
            ELSE invalid
        ELSE IF b0 >= 224 /\ b0 <= 239 THEN
            IF /\ n >= 3
               /\ s[i + 1] >= (IF b0 = 224 THEN 160 ELSE 128)
               /\ s[i + 1] <= (IF b0 = 237 THEN 159 ELSE 191)
               /\ IsCont(s[i + 2])
            THEN [r |-> (b0 % 16) * 4096 + (s[i + 1] % 64) * 64 + (s[i + 2] % 64),
                  size |-> 3]
            ELSE invalid
        ELSE IF b0 >= 240 /\ b0 <= 244 THEN
            IF /\ n >= 4
               /\ s[i + 1] >= (IF b0 = 240 THEN 144 ELSE 128)
               /\ s[i + 1] <= (IF b0 = 244 THEN 143 ELSE 191)
               /\ IsCont(s[i + 2])
               /\ IsCont(s[i + 3])
            THEN [r |-> (b0 % 8) * 262144 + (s[i + 1] % 64) * 4096
                        + (s[i + 2] % 64) * 64 + (s[i + 3] % 64),
                  size |-> 4]
            ELSE invalid
        ELSE invalid

\* utf8.RuneLen for the runes a decoding yields (never a surrogate)
RuneLen(r) ==
    IF r < 128 THEN 1 ELSE IF r < 2048 THEN 2 ELSE IF r < 65536 THEN 3 ELSE 4

(***************************************************************************)
(* escape                                                                  *)
(***************************************************************************)
\* "0123456789ABCDEF"
CHARS == <<48, 49, 50, 51, 52, 53, 54, 55, 56, 57, 65, 66, 67, 68, 69, 70>>

\* The loop of escape from 1-based position i on.  escValue is made with
\* make([]byte, 0, len(original)), which is never nil: the branches guarded
\* by escValue == nil never run and every rune is appended.
RECURSIVE escapeFrom(_, _, _)
escapeFrom(src, i, escValue) ==
    IF i > Len(src) THEN escValue
    ELSE LET d == DecodeRune(src, i)
             r == d.r
         IN  IF r = RuneError \/ r < 32 \/ r = 37 \/ r = 34 \/ r = 92
             THEN LET c == IF r = RuneError THEN src[i] ELSE r % 256
                  IN  escapeFrom(src, i + d.size,
                          escValue \o <<37, CHARS[((c \div 16) % 16) + 1], CHARS[(c % 16) + 1]>>)
             ELSE escapeFrom(src, i + d.size,
                          escValue \o SubSeq(src, i, i + RuneLen(r) - 1))

escape(src) == escapeFrom(src, 1, <<>>)

(***************************************************************************)
(* parseHex and unescape                                                   *)
(***************************************************************************)
\* parseHex with 'A'..'F' read as 0..5: the "10 +" left out
parseHexNoTen(c) ==
    IF c >= 48 /\ c <= 57 THEN [v |-> c - 48, err |-> FALSE]
    ELSE IF c >= 65 /\ c <= 70 THEN [v |-> c - 65, err |-> FALSE]
    ELSE [v |-> 0, err |-> TRUE]

parseHex(c) ==
    IF c >= 48 /\ c <= 57 THEN [v |-> c - 48, err |-> FALSE]
    ELSE IF c >= 65 /\ c <= 70 THEN [v |-> 10 + (c - 65), err |-> FALSE]
    ELSE [v |-> 0, err |-> TRUE]

\* strings.ContainsRune(s, '%')
ContainsPercent(s) == \E k \in 1..Len(s) : s[k] = 37

\* The loop of unescape: p is decoded in place, i (0-based) reads and n writes.
RECURSIVE unescapeLoop(_, _, _)
unescapeLoop(p, i, n) ==
    IF i >= Len(p) THEN SubSeq(p, 1, n)
    ELSE LET c0  == p[i + 1]
             try == c0 = 37 /\ i + 2 < Len(p)
             h   == IF try THEN parseHex(p[i + 2]) ELSE [v |-> 0, err |-> TRUE]
             l   == IF try THEN parseHex(p[i + 3]) ELSE [v |-> 0, err |-> TRUE]
             hit == try /\ ~h.err /\ ~l.err
             c   == IF hit THEN (h.v * 16 + l.v) % 256 ELSE c0
             i2  == IF hit THEN i + 2 ELSE i
         IN  unescapeLoop([p EXCEPT ![n + 1] = c], i2 + 1, n + 1)

unescape(s) == IF ~ContainsPercent(s) THEN s ELSE unescapeLoop(s, 0, 0)

(***************************************************************************)
(* The codec's specification: a byte string is escaped and the token       *)
(* decoded again, or a text is decoded as it stands.                       *)
(***************************************************************************)
InitCodec ==
    /\ phase = "input"
    /\ original \in CodecInputs
    /\ escaped = <<>>
    /\ decoded = <<>>
    /\ CollectIdle
    /\ WriterIdle

DoEscape ==
    /\ phase = "input"
    /\ escaped' = escape(original)
    /\ phase' = "escaped"
    /\ UNCHANGED <<original, decoded, collectVars, writerVars>>

DoUnescape ==
    /\ phase = "escaped"
    /\ decoded' = unescape(escaped)
    /\ phase' = "decoded"
    /\ UNCHANGED <<original, escaped, collectVars, writerVars>>

DoUnescapeText ==
    /\ phase = "input"
    /\ decoded' = unescape(original)
    /\ phase' = "raw"
    /\ UNCHANGED <<original, escaped, collectVars, writerVars>>

NextCodec == DoEscape \/ DoUnescape \/ DoUnescapeText

SpecCodec == InitCodec /\ [][NextCodec]_vars

(***************************************************************************)
(* Claims about the codec (checked under SpecCodec)                        *)
(***************************************************************************)
\* C1: for every byte sequence b, unescape(escape(b)) returns exactly b.
C1_RoundTrip == phase = "decoded" => decoded = original

\* the byte b written as '%' and its two uppercase hexadecimal digits
PercentHex(b) ==
    LET digit(d) == IF d < 10 THEN 48 + d ELSE 55 + d
    IN  <<37, digit(b \div 16), digit(b % 16)>>

ReservedByte(b) == b < 32 \/ b = 37 \/ b = 34 \/ b = 92

\* The token C8 describes: a reserved byte and a byte of an ill-formed
\* encoding become %XX, every other byte, with all the bytes of a complete
\* multi-byte character, is copied.
RECURSIVE EscapeByBytes(_)
EscapeByBytes(s) ==
    IF s = <<>> THEN <<>>
    ELSE LET d == DecodeRune(s, 1)
             wellFormed == s[1] < 128 \/ d.size > 1
         IN  IF wellFormed /\ ~ReservedByte(s[1])
             THEN SubSeq(s, 1, d.size) \o EscapeByBytes(SubSeq(s, d.size + 1, Len(s)))
             ELSE PercentHex(s[1]) \o EscapeByBytes(Tail(s))

\* C8: escape replaces each control byte, '%', '"', '\' and each byte of an
\* invalid UTF-8 encoding by %XX and copies every other byte unchanged, all
\* the bytes of a complete valid multi-byte character included.
C8_EscapeByteMap == phase = "escaped" => escaped = EscapeByBytes(original)

IsHexDigit(c) == (c >= 48 /\ c <= 57) \/ (c >= 65 /\ c <= 70)

HexValue(c) == IF c <= 57 THEN c - 48 ELSE c - 55

\* The left-to-right tolerant decoding C9 describes.
RECURSIVE TolerantDecode(_)
TolerantDecode(s) ==
    IF s = <<>> THEN <<>>
    ELSE IF s[1] = 37 /\ Len(s) >= 3 /\ IsHexDigit(s[2]) /\ IsHexDigit(s[3])
         THEN <<HexValue(s[2]) * 16 + HexValue(s[3])>> \o TolerantDecode(SubSeq(s, 4, Len(s)))
         ELSE <<s[1]>> \o TolerantDecode(Tail(s))

\* C9: unescape decodes, left to right, a '%' followed by two hexadecimal
\* digits (0-9, A-F) to one byte and passes a '%' not followed by two such
\* digits through literally; it never fails, and "a%ZZb" decodes to itself.
C9_TolerantDecode ==
    phase = "raw" =>
        /\ decoded = TolerantDecode(original)
        /\ (original = ScenarioD => decoded = ScenarioD)

\* a text holding a valid escape, a '%' before a non-digit and a '%' with
\* fewer than two characters left has been decoded
C9_Witness ==
    /\ phase = "raw"
    /\ \/ original = ScenarioD /\ decoded = ScenarioD
       \/ original = <<37, 52, 65>> /\ decoded = <<74>>

(***************************************************************************)
(* collectEntry                                                            *)
(*                                                                         *)
(* The parsed tree is a heap of DumpedEntry objects, one per node 1..N     *)
(* (node 1 is the root); a child's key in its parent's Entries map is its  *)
(* node number.  Name and Parents are not serialised (json:"-"): they are  *)
(* empty until collectEntry sets them.  A range over a Go map visits the   *)
(* children in any order.                                                  *)
(***************************************************************************)
\* number of nodes of the parsed tree
MaxNodes == 4

Nodes == 1..MaxNodes

NoAttr == [Type |-> "none"]

\* the inode identifiers, type tags, change times and link counts the
\* document carries for the nodes below the root
ChildInodes == {2, 3}

\* what the document carries for a regular file: change time and link count
FileInputs ==
    {[Ctime |-> 0, Ctimensec |-> 1, Nlink |-> 1],
     [Ctime |-> 1, Ctimensec |-> 0, Nlink |-> 2]}

NlinkInputs == {1, 2}

MkAttr(i, t, c, ns, n) ==
    [Inode |-> i, Type |-> t, Ctime |-> c, Ctimensec |-> ns, Nlink |-> n]

\* a node below the root: no attribute, a directory, a symlink (which stands
\* for every type that is neither file nor directory) or a regular file
ChildAttrs ==
    {NoAttr}
    \cup {MkAttr(i, "directory", 0, 0, 1) : i \in ChildInodes}
    \cup {MkAttr(i, "symlink", 0, 0, n) : i \in ChildInodes, n \in NlinkInputs}
    \cup {MkAttr(i, "regular", f.Ctime, f.Ctimensec, f.Nlink) : i \in ChildInodes, f \in FileInputs}

RootAttrs == {MkAttr(1, "directory", 0, 0, n) : n \in NlinkInputs}

\* the trees of 1..MaxNodes: the parent of node i, numbered breadth-first
TreeShapes ==
    {p \in [Nodes -> 0..MaxNodes] :
        /\ p[1] = 0
        /\ \A i \in Nodes \ {1} : p[i] >= 1 /\ p[i] < i
        /\ \A i \in Nodes \ {1, 2} : p[i - 1] <= p[i]}

\* type tags as typeFromString reads them
TypeFile == "TypeFile"

TypeDirectory == "TypeDirectory"

TypeSymlink == "TypeSymlink"

typeFromString(s) ==
    CASE s = "regular" -> TypeFile
      [] s = "directory" -> TypeDirectory
      [] s = "symlink" -> TypeSymlink

\* eattr.Ctime*1e9 + int64(eattr.Ctimensec)
CtimeNanos(attr) == attr.Ctime * 1000000000 + attr.Ctimensec

\* typ != TypeFile && typeFromString(eattr.Type) != TypeFile
ConflictBothOnly(typ, etyp) == typ # TypeFile /\ etyp # TypeFile

\* typ != TypeFile || typeFromString(eattr.Type) != TypeFile
Conflict(typ, etyp) == typ # TypeFile \/ etyp # TypeFile

\* the stored record is replaced when it is not newer (<= for <)
ReplacesOnTie(eattr, attr) == CtimeNanos(eattr) <= CtimeNanos(attr)

\* eattr.Ctime*1e9+int64(eattr.Ctimensec) < attr.Ctime*1e9+int64(attr.Ctimensec)
Replaces(eattr, attr) == CtimeNanos(eattr) < CtimeNanos(attr)

\* the reset of a first occurrence's link count left out
FirstFileNlinkKept(n) == n

\* e.Attr.Nlink = 1 // reset
FirstFileNlink(n) == 1

\* a directory's link count started at 1
DirBaseNlinkOne == 2 - 1

\* e.Attr.Nlink = 2
DirBaseNlink == 2

\* The body of collectEntry(e) on heap h, up to its range loop: the heap and
\* the table it leaves, the error it returns, and whether it enters the loop.
\* Of "inode == 1 || inode == TrashInode" only the root is modelled:
\* TrashInode is none of the inode identifiers drawn.
CollectBody(h, tab, e) ==
    LET typ   == typeFromString(h[e].Attr.Type)
        inode == h[e].Attr.Inode
        out(h2, tab2, er, lp) == [nodes |-> h2, entries |-> tab2, err |-> er, loop |-> lp]
    IN  IF inode \in DOMAIN tab
        THEN LET exist == tab[inode]
             IN  IF Conflict(typ, typeFromString(h[exist].Attr.Type))
                 THEN out(h, tab, [kind |-> "conflict", inode |-> inode], FALSE)
                 ELSE LET h1 == [h EXCEPT ![exist].Attr.Nlink = @ + 1,
                                          ![exist].Parents = @ \o h[e].Parents]
                      IN  IF Replaces(h1[exist].Attr, h1[e].Attr)
                          THEN out([h1 EXCEPT ![e].Attr.Nlink = h1[exist].Attr.Nlink,
                                              ![e].Parents = h1[exist].Parents],
                                   [tab EXCEPT ![inode] = e], NoErr, FALSE)
                          ELSE out(h1, tab, NoErr, FALSE)
        ELSE LET tab1 == [i \in DOMAIN tab \cup {inode} |-> IF i = inode THEN e ELSE tab[i]]
             IN  IF typ = TypeFile
                 THEN out([h EXCEPT ![e].Attr.Nlink = FirstFileNlink(@)], tab1, NoErr, FALSE)
                 ELSE IF typ = TypeDirectory
                 THEN out([h EXCEPT ![e].Parents = IF inode = 1 THEN <<1>> ELSE @,
                                    ![e].Attr.Nlink = DirBaseNlink],
                          tab1, NoErr, TRUE)
                 ELSE IF h[e].Attr.Nlink # 1
                 THEN out(h, tab1, [kind |-> "nlink", inode |-> inode], FALSE)
                 ELSE out(h, tab1, NoErr, FALSE)

\* showProgress(int64(len(e.Entries)), 1) or showProgress(0, 1)
ProgressTotal(h, e) ==
    IF typeFromString(h[e].Attr.Type) = TypeDirectory THEN Cardinality(h[e].Entries) ELSE 0

\* The call collectEntry(e) from the state (h, rest of the stack): a non-nil
\* error is returned through every enclosing frame; a directory enters its
\* loop; any other entry returns nil to the frame that called it.
Collect(h, frames, e) ==
    LET r == CollectBody(h, entries, e)
    IN  /\ total' = total + ProgressTotal(h, e)
        /\ current' = current + 1
        /\ visited' = Append(visited, e)
        /\ nodes' = r.nodes
        /\ entries' = r.entries
        /\ err' = r.err
        /\ IF r.err # NoErr
           THEN stack' = <<>> /\ cpc' = "done"
           ELSE IF r.loop
           THEN stack' = Append(frames, [e |-> e, todo |-> h[e].Entries]) /\ cpc' = "run"
           ELSE stack' = frames /\ cpc' = (IF frames = <<>> THEN "done" ELSE "run")

InitCollect ==
    /\ CodecIdle
    /\ WriterIdle
    /\ cpc = "start"
    /\ \E p \in TreeShapes : \E ra \in RootAttrs : \E ca \in [Nodes \ {1} -> ChildAttrs] :
          nodes = [n \in Nodes |->
                     [Name |-> 0, Parents |-> <<>>,
                      Attr |-> IF n = 1 THEN ra ELSE ca[n],
                      Entries |-> {c \in Nodes : p[c] = n}]]
    /\ entries = <<>>
    /\ stack = <<>>
    /\ err = NoErr
    /\ total = 0
    /\ current = 0
    /\ warned = 0
    /\ visited = <<>>

\* the caller's collectEntry(root, entries, showProgress)
CollectRoot ==
    /\ cpc = "start"
    /\ Collect(nodes, <<>>, 1)
    /\ UNCHANGED <<warned, codecVars, writerVars>>

Top == stack[Len(stack)]

\* the frames with child c taken off the innermost range
Without(c) == [stack EXCEPT ![Len(stack)].todo = @ \ {c}]

\* one iteration of the range loop on a child that has an attribute
CollectChild ==
    /\ cpc = "run"
    /\ stack # <<>>
    /\ \E c \in Top.todo :
          /\ nodes[c].Attr # NoAttr
          /\ LET e  == Top.e
                 h1 == [nodes EXCEPT ![c].Name = c,
                                     ![c].Parents = <<nodes[e].Attr.Inode>>]
                 h2 == IF typeFromString(h1[c].Attr.Type) = TypeDirectory
                       THEN [h1 EXCEPT ![e].Attr.Nlink = @ + 1]
                       ELSE h1
             IN  Collect(h2, Without(c), c)
    /\ UNCHANGED <<warned, codecVars, writerVars>>

\* one iteration on a child without attribute: logger.Warnf and continue
SkipChild ==
    /\ cpc = "run"
    /\ stack # <<>>
    /\ \E c \in Top.todo :
          /\ nodes[c].Attr = NoAttr
          /\ nodes' = [nodes EXCEPT ![c].Name = c,
                                    ![c].Parents = <<nodes[Top.e].Attr.Inode>>]
          /\ stack' = Without(c)
    /\ warned' = warned + 1
    /\ UNCHANGED <<cpc, entries, err, total, current, visited, codecVars, writerVars>>

\* the range loop of the innermost frame is over: return nil
ReturnNil ==
    /\ cpc = "run"
    /\ stack # <<>>
    /\ Top.todo = {}
    /\ stack' = SubSeq(stack, 1, Len(stack) - 1)
    /\ cpc' = (IF Len(stack) = 1 THEN "done" ELSE "run")
    /\ UNCHANGED <<nodes, entries, err, total, current, warned, visited, codecVars, writerVars>>

NextCollect == CollectRoot \/ CollectChild \/ SkipChild \/ ReturnNil

SpecCollect == InitCollect /\ [][NextCollect]_vars

(***************************************************************************)
(* Claims about collectEntry (checked under SpecCollect)                   *)
(***************************************************************************)
Succeeded == cpc = "done" /\ err = NoErr

ParentOf(n) == CHOOSE p \in Nodes : n \in nodes[p].Entries

IsDir(n) == nodes[n].Attr # NoAttr /\ nodes[n].Attr.Type = "directory"

IsFile(n) == nodes[n].Attr # NoAttr /\ nodes[n].Attr.Type = "regular"

\* a node the traversal comes to when nothing fails: it has an attribute
\* and so has every ancestor, each a directory
RECURSIVE Reached(_)
Reached(n) ==
    \/ n = 1
    \/ /\ nodes[n].Attr # NoAttr
       /\ IsDir(ParentOf(n))
       /\ Reached(ParentOf(n))

\* the tree occurrences of inode x
Occurrences(x) == {n \in Nodes : Reached(n) /\ nodes[n].Attr.Inode = x}

\* the inode of the directory that owns occurrence n
Owner(n) == nodes[ParentOf(n)].Attr.Inode

Times(seq, d) == Cardinality({k \in 1..Len(seq) : seq[k] = d})

Pos(n) == CHOOSE k \in 1..Len(visited) : visited[k] = n

\* C2: after a successful collection a regular-file inode that occurs k
\* times has Nlink = k in the table, whatever nlink the occurrences carried,
\* and its Parents holds exactly the owning directory of each occurrence.
C2_HardlinkCount ==
    Succeeded =>
        \A n \in Nodes : (Reached(n) /\ IsFile(n)) =>
            LET x   == nodes[n].Attr.Inode
                occ == Occurrences(x)
            IN  /\ x \in DOMAIN entries
                /\ nodes[entries[x]].Attr.Nlink = Cardinality(occ)
                /\ Len(nodes[entries[x]].Parents) = Cardinality(occ)
                /\ \A d \in {1} \cup ChildInodes :
                      Times(nodes[entries[x]].Parents, d)
                          = Cardinality({m \in occ : Owner(m) = d})

\* a file inode collected from two directories, its record's input nlink
\* differing from the count
C2_Witness ==
    /\ Succeeded
    /\ \E a, b \in Nodes :
          /\ a # b /\ Reached(a) /\ Reached(b) /\ IsFile(a) /\ IsFile(b)
          /\ nodes[a].Attr.Inode = nodes[b].Attr.Inode
          /\ Owner(a) # Owner(b)
          /\ nodes[entries[nodes[a].Attr.Inode]].Attr.Nlink = 2

\* C3: after a successful collection the record kept for a regular-file
\* inode is the occurrence with the largest ctime*1e9+ctimensec, and among
\* several with that value the one visited first.
C3_NewestFirstKept ==
    Succeeded =>
        \A x \in DOMAIN entries : IsFile(entries[x]) =>
            LET kept == entries[x]
            IN  /\ kept \in Occurrences(x)
                /\ \A n \in Occurrences(x) :
                      /\ CtimeNanos(nodes[n].Attr) <= CtimeNanos(nodes[kept].Attr)
                      /\ (n # kept /\ CtimeNanos(nodes[n].Attr) = CtimeNanos(nodes[kept].Attr))
                            => Pos(kept) < Pos(n)

\* three occurrences: an older one visited first, then two of the same,
\* newest change time; the first of these two is the record
C3_Witness ==
    /\ Succeeded
    /\ \E a, b, c \in Nodes :
          /\ a # b /\ IsFile(a)
          /\ {a, b, c} \subseteq Occurrences(nodes[a].Attr.Inode)
          /\ CtimeNanos(nodes[c].Attr) < CtimeNanos(nodes[a].Attr)
          /\ CtimeNanos(nodes[a].Attr) = CtimeNanos(nodes[b].Attr)
          /\ Pos(c) < Pos(a) /\ Pos(a) < Pos(b)
          /\ entries[nodes[a].Attr.Inode] = a

\* C4: after a successful collection every directory in the table has
\* Nlink = 2 + the number of its direct children that are directories.
C4_DirNlink ==
    Succeeded =>
        \A x \in DOMAIN entries : IsDir(entries[x]) =>
            nodes[entries[x]].Attr.Nlink
                = 2 + Cardinality({c \in nodes[entries[x]].Entries : IsDir(c)})

\* the root, given nlink 1 or 2 by the document, ends with 3: one
\* subdirectory beside a child that is none
C4_Witness ==
    /\ Succeeded
    /\ nodes[1].Attr.Nlink = 3
    /\ \E c, f \in nodes[1].Entries : IsDir(c) /\ ~IsDir(f)

\* two occurrences of inode x in the document, one of them no regular file
Clash(a, b) ==
    /\ a # b
    /\ nodes[a].Attr # NoAttr /\ nodes[b].Attr # NoAttr
    /\ nodes[a].Attr.Inode = nodes[b].Attr.Inode
    /\ ~(IsFile(a) /\ IsFile(b))

\* C5 as claimed, in the case most favourable to it: the traversal comes
\* to both occurrences and no other inode occurs twice.  Then collectEntry
\* always fails with the conflict error naming that inode.
C5_AlwaysConflictError ==
    cpc = "done" =>
        \A a, b \in Nodes :
            (/\ Clash(a, b) /\ Reached(a) /\ Reached(b)
             /\ \A c, d \in Nodes :
                   (Clash(c, d) /\ Reached(c) /\ Reached(d))
                       => nodes[c].Attr.Inode = nodes[a].Attr.Inode)
            => err = [kind |-> "conflict", inode |-> nodes[a].Attr.Inode]

\* a non-file, non-directory entry the traversal comes to, with nlink # 1
BadNlink(n) == Reached(n) /\ ~IsFile(n) /\ ~IsDir(n) /\ nodes[n].Attr.Nlink # 1

\* C5 amended: when the traversal comes to both occurrences, collectEntry
\* never succeeds; it returns the first error it meets: the conflict naming
\* that inode, unless a conflict on another inode or the invalid nlink of a
\* non-file, non-directory entry is met first.
C5_ReachedClashFails ==
    cpc = "done" =>
        \A a, b \in Nodes : (Clash(a, b) /\ Reached(a) /\ Reached(b)) =>
            /\ err # NoErr
            /\ \/ err = [kind |-> "conflict", inode |-> nodes[a].Attr.Inode]
               \/ /\ err.kind = "conflict"
                  /\ err.inode # nodes[a].Attr.Inode
                  /\ \E c, d \in Nodes :
                        Clash(c, d) /\ Reached(c) /\ Reached(d) /\ nodes[c].Attr.Inode = err.inode
               \/ /\ err.kind = "nlink"
                  /\ \E c \in Nodes : BadNlink(c) /\ nodes[c].Attr.Inode = err.inode

\* a symlink and a regular file share an inode, the file is met first and
\* the collection ends with the conflict error naming the inode
C5_Witness ==
    /\ cpc = "done"
    /\ \E a, b \in Nodes :
          /\ Clash(a, b) /\ Reached(a) /\ Reached(b)
          /\ IsFile(a) /\ nodes[b].Attr.Type = "symlink"
          /\ \E j \in 1..Len(visited) : visited[j] = a
          /\ err = [kind |-> "conflict", inode |-> nodes[a].Attr.Inode]

\* C7: a child without attribute is skipped and a skip/progress counter the
\* caller sees increments by one for each skipped child.
C7_SkipCounted ==
    [][warned' # warned => (current' = current + 1 \/ total' = total + 1)]_vars

(***************************************************************************)
(* The streaming writer                                                    *)
(*                                                                         *)
(* The text handed to the bufio.Writer is a sequence of pieces, one per    *)
(* write call: its kind, its indentation and the escaped strings it        *)
(* embeds (json.Marshal of the attribute and of a chunk is a piece of its  *)
(* own kind; it cannot fail for these types).  Whether a write only fills  *)
(* the 64 KiB buffer, is flushed, or is rejected by the sink depends on    *)
(* the buffer's fill and on the sink: the rejected write, if any, is an    *)
(* input of the call.                                                      *)
(***************************************************************************)
\* most extended attributes of the entry
MaxXattrs == 2

\* most chunks of the entry
MaxChunks == 2

\* most emissions of the entry
MaxCalls == 2

\* names, symlink targets and extended-attribute values: "a", "%", U+00E9
WriterStrings == {<<97>>, <<37>>, <<195, 169>>}

WriterEntries ==
    {[Name |-> nm, Symlink |-> sl, Xattrs |-> xs, Chunks |-> ch] :
        nm \in {<<97>>, <<37>>},
        sl \in {<<>>, <<37>>},
        xs \in SeqsUpTo(WriterStrings, MaxXattrs),
        ch \in 0..MaxChunks}

Depths == {1, 2}

Piece(kind, depth, strs) == [k |-> kind, depth |-> depth, v |-> strs]

\* for _, dumpedXattr := range de.Xattrs { dumpedXattr.Value = escape(dumpedXattr.Value) }
EscapeXattrs(e) ==
    [e EXCEPT !.Xattrs = [k \in 1..Len(e.Xattrs) |-> escape(e.Xattrs[k])]]

\* the chunk pieces of writeJSON: one inline value for one chunk, an
\* indented sequence for more
RECURSIVE ChunkLines(_, _, _)
ChunkLines(i, n, depth) ==
    IF i > n THEN <<>>
    ELSE <<Piece("chunk", depth + 2, <<<<i>>>>)>>
         \o (IF i # n THEN <<Piece("comma", 0, <<>>)>> ELSE <<>>)
         \o ChunkLines(i + 1, n, depth)

ChunkPieces(e, depth) ==
    IF e.Chunks = 1 THEN <<Piece("chunks", depth + 1, <<>>)>>
    ELSE IF e.Chunks > 1
    THEN <<Piece("chunks[", depth + 1, <<>>)>>
         \o ChunkLines(1, e.Chunks, depth)
         \o <<Piece("]", depth + 1, <<>>)>>
    ELSE <<>>

\* the pieces the two node writers hand to write(), up to the
\* extended attributes (which are escaped in place before they are written)
HeadPieces(e, depth) ==
    <<Piece("open", depth, <<escape(e.Name)>>), Piece("attr", depth + 1, <<>>)>>

XattrPieces(e, depth) ==
    IF Len(e.Xattrs) > 0
    THEN <<Piece("xattrs", depth + 1, EscapeXattrs(e).Xattrs)>>
    ELSE <<>>

writeJSONPieces(e, depth) ==
    HeadPieces(e, depth)
    \o (IF Len(e.Symlink) > 0
        THEN <<Piece("symlink", depth + 1, <<escape(e.Symlink)>>)>>
        ELSE <<>>)
    \o XattrPieces(e, depth)
    \o ChunkPieces(e, depth)
    \o <<Piece("close", depth, <<>>)>>

writeJsonWithOutEntryPieces(e, depth) ==
    HeadPieces(e, depth)
    \o XattrPieces(e, depth)
    \o <<Piece("entries", depth + 1, <<>>)>>

\* a write closure that drops the error of bw.WriteString
writeIgnoringError(rejected) == "nil"

\* write := func(s string) { if _, err := bw.WriteString(s); err != nil { panic(err) } }
write(rejected) == IF rejected THEN "panic" ELSE "nil"

\* One call of a node writer that hands `pieces` to write(): the sink
\* rejects the write of piece failAt (0: none); xat is the position of the
\* xattrs piece.  The entry's values are escaped in place once the call
\* comes to the extended attributes.
EmitNode(op, depth, pieces, xat, failAt) ==
    LET rejected == failAt > 0
        comesToXattrs == Len(de.Xattrs) > 0 /\ (~rejected \/ failAt >= xat)
    IN  /\ de' = (IF comesToXattrs THEN EscapeXattrs(de) ELSE de)
        /\ last' = [op |-> op, depth |-> depth, failAt |-> failAt,
                    pieces |-> IF rejected THEN SubSeq(pieces, 1, failAt - 1) ELSE pieces,
                    ret |-> write(rejected)]
        /\ wpc' = (IF write(rejected) = "panic" THEN "failed" ELSE "tree")
        /\ ncalls' = ncalls + 1
        /\ UNCHANGED dm

InitWriter ==
    /\ CodecIdle
    /\ CollectIdle
    /\ wpc = "header"
    /\ dm \in [FSTree : BOOLEAN, Trash : BOOLEAN]
    /\ de \in WriterEntries
    /\ ncalls = 0
    /\ last = NoCall

\* dm.writeJsonWithOutTree(w): the header, with its closing "\n}" cut off,
\* goes to a new bufio.Writer, which buffers it or, when it is larger than
\* the buffer, hands it to the sink at once
writeJsonWithOutTree ==
    /\ wpc = "header"
    /\ IF dm.FSTree \/ dm.Trash
       THEN /\ last' = [NoCall EXCEPT !.op = "writeJsonWithOutTree", !.ret = "invalid dumped meta"]
            /\ wpc' = "failed"
       ELSE \E rejected \in BOOLEAN :
            /\ last' = [op |-> "writeJsonWithOutTree", depth |-> 0,
                        failAt |-> IF rejected THEN 1 ELSE 0,
                        pieces |-> IF rejected THEN <<>> ELSE <<Piece("header", 0, <<>>)>>,
                        ret |-> IF rejected THEN "io error" ELSE "nil"]
            /\ wpc' = (IF rejected THEN "failed" ELSE "tree")
    /\ UNCHANGED <<dm, de, ncalls, codecVars, collectVars>>

\* de.writeJSON(bw, depth)
writeJSON ==
    /\ wpc = "tree"
    /\ ncalls < MaxCalls
    /\ \E depth \in Depths :
          LET pieces == writeJSONPieces(de, depth)
              xat == 3 + (IF Len(de.Symlink) > 0 THEN 1 ELSE 0)
          IN  \E failAt \in 0..Len(pieces) :
                 EmitNode("writeJSON", depth, pieces, xat, failAt)
    /\ UNCHANGED <<codecVars, collectVars>>

\* de.writeJsonWithOutEntry(bw, depth)
writeJsonWithOutEntry ==
    /\ wpc = "tree"
    /\ ncalls < MaxCalls
    /\ \E depth \in Depths :
          LET pieces == writeJsonWithOutEntryPieces(de, depth)
          IN  \E failAt \in 0..Len(pieces) :
                 EmitNode("writeJsonWithOutEntry", depth, pieces, 3, failAt)
    /\ UNCHANGED <<codecVars, collectVars>>

NextWriter == writeJsonWithOutTree \/ writeJSON \/ writeJsonWithOutEntry

SpecWriter == InitWriter /\ [][NextWriter]_vars

(***************************************************************************)
(* Claims about the writer (checked under SpecWriter)                      *)
(***************************************************************************)
\* C6 as claimed: when the sink rejects a write, the writer operation stops
\* and returns an I/O error value to its caller.
C6_ReturnsIOError == last.failAt > 0 => last.ret = "io error"

\* C6 amended: when the sink rejects a write, the operation stops at that
\* write; writeJsonWithOutTree returns the I/O error, writeJSON and
\* writeJsonWithOutEntry panic with it and return no error value.
C6_StopsOnRejectedWrite ==
    last.failAt > 0 =>
        /\ Len(last.pieces) = last.failAt - 1
        /\ wpc = "failed"
        /\ last.op = "writeJsonWithOutTree" => last.ret = "io error"
        /\ last.op \in {"writeJSON", "writeJsonWithOutEntry"} => last.ret = "panic"

\* the sink rejected a write of writeJSON after the node's opening and
\* attribute were written: the call panicked
C6_Witness ==
    /\ last.op = "writeJSON"
    /\ last.failAt = 3
    /\ Len(last.pieces) = 2
    /\ last.ret = "panic"

\* C10: emitting a node does not change the node: its name, attribute,
\* symlink, extended-attribute values and chunks are what they were before.
C10_EntryUnchanged == [][de' = de]_vars

(***************************************************************************)
(* Every part together                                                     *)
(***************************************************************************)
Init == InitCodec \/ InitCollect \/ InitWriter

Next == NextCodec \/ NextCollect \/ NextWriter

Spec == Init /\ [][Next]_vars

====
